---- MODULE Spec2Model ----
(***************************************************************************)
(* Model of the move-skills command-line installer (cli.js).               *)
(*                                                                         *)
(* The program is one process: main() dispatches on argv[2]; init()        *)
(* resolves the per-platform skills directory, ensures it exists, checks   *)
(* the bundled source directory and then, for each plugin in listed order, *)
(* replaces the plugin's copy under the skills directory.  Every await of  *)
(* init() is one step of the model.  The filesystem calls are fs-extra's:  *)
(* pathExists never throws, ensureDir/remove/copy either complete or throw *)
(* (the throw is caught at cli.js:74 and ends the process with status 1).  *)
(*                                                                         *)
(* A directory tree is abstracted to the set of relative file paths it     *)
(* holds; the bytes of a file are abstracted to "bundled" (equal to the    *)
(* bytes the package holds at that relative path) or "other".              *)
(***************************************************************************)
EXTENDS Integers, Sequences, FiniteSets, TLC

\* Number of distinct relative file paths a plugin tree may hold.
NumFiles == 2

Paths == 1..NumFiles

\* the list in the other order
pluginsReversed == <<"aptos-ts-sdk", "aptos-move-contract">>

\* cli.js:41
plugins == <<"aptos-move-contract", "aptos-ts-sdk">>

Plugins == {plugins[k] : k \in DOMAIN plugins}

\* cli.js:7-11, the keys of the table
CLAUDE_SKILLS_DIRS == {"darwin", "linux", "win32"}

\* values os.platform() can return: the three keys and one that is no key
Platforms == CLAUDE_SKILLS_DIRS \cup {"freebsd"}

\* process.argv[2]: the three recognised tokens, absent, and two other tokens
Commands == {"init", "--help", "-h", "undefined", "install", "--version"}

NoTree == [exists |-> FALSE, files |-> [p \in Paths |-> "absent"]]

\* A directory of the package: the files it holds are, by definition, bundled.
\* The relative paths of a plugin are numbered so that its package tree holds
\* the first m of them (a tree under the skills directory holds any of them).
SourceTrees ==
    {NoTree} \cup
    {[exists |-> TRUE,
      files |-> [p \in Paths |-> IF p <= m THEN "bundled" ELSE "absent"]] :
        m \in 0..NumFiles}

\* A plugin directory left under the skills directory before the first run
StaleTrees ==
    {NoTree} \cup
    {[exists |-> TRUE, files |-> f] : f \in [Paths -> {"absent", "other"}]}

FilesOf(t) == {p \in Paths : t.files[p] # "absent"}

\* A name under the skills directory that is not in the list of cli.js:41; a
\* skills directory that exists at the start holds an entry of that name
OtherNames == {"my-own-skill"}

\* Two processes started from the same package on the same skills directory
Runs == {"A", "B"}

Idle == [pc |-> "idle", idx |-> 1, k |-> 1, exitCode |-> -1, raced |-> FALSE]

VARIABLES
    command,          \* process.argv[2]
    platform,         \* os.platform()
    sourceDirExists,  \* move_claude_skill/plugins exists next to cli.js
    sourceTree,       \* plugin -> tree at sourceDir/plugin/skills/plugin
    skillsDirExists,  \* the resolved skills directory exists
    targetTree,       \* plugin -> tree at skillsDir/plugin
    pc,               \* position of the process
    idx,              \* index of the for loop over plugins
    console,          \* messages printed by this run, in order
    calls,            \* fs-extra calls made by this run, in order
    exitCode,         \* -1 while running, else the process's exit status
    startDirExists,   \* skillsDirExists when this run started
    startTree,        \* targetTree when this run started
    prev,             \* "none", or how the previous run ended: "clean", "faulted"
    otherEntries,     \* entries of the skills directory that no plugin is named after
    run               \* the position of each of two processes running init at once

vars == <<command, platform, sourceDirExists, sourceTree, skillsDirExists,
          targetTree, pc, idx, console, calls, exitCode, startDirExists,
          startTree, prev, otherEntries, run>>

\* what no call of a single process writes: the invocation, the package, the
\* entries of the skills directory beside the plugins' directories, and the
\* processes of ConcSpec, which stay idle while one process runs alone
config == <<command, platform, sourceDirExists, sourceTree, otherEntries, run>>
history == <<startDirExists, startTree, prev>>

Init ==
    /\ command \in Commands
    /\ platform \in Platforms
    /\ sourceDirExists \in BOOLEAN
    /\ sourceTree \in [Plugins -> SourceTrees]
    /\ sourceDirExists = FALSE => \A u \in Plugins : sourceTree[u] = NoTree
    /\ skillsDirExists \in BOOLEAN
    /\ targetTree \in [Plugins -> StaleTrees]
    /\ skillsDirExists = FALSE => \A u \in Plugins : targetTree[u] = NoTree
    /\ otherEntries = IF skillsDirExists THEN OtherNames ELSE {}
    /\ run = [r \in Runs |-> Idle]
    /\ pc = "main"
    /\ idx = 1
    /\ console = <<>>
    /\ calls = <<>>
    /\ exitCode = -1
    /\ startDirExists = skillsDirExists
    /\ startTree = targetTree
    /\ prev = "none"

Log(stream, msg, arg) == <<stream, msg, arg>>

\* process.exit(code), or the process ending after main() resolves (code 0)
Exit(code) ==
    /\ pc' = "exited"
    /\ exitCode' = code

\* a catch block that logs the error and lets the process end normally
CatchErrorSwallows ==
    /\ console' = Append(console, Log("error", "Error installing Move Skills", "-"))
    /\ Exit(0)

\* a catch block that ends the process without a message
CatchErrorSilent ==
    /\ Exit(1)
    /\ UNCHANGED console

\* cli.js:74-77
CatchError ==
    /\ console' = Append(console, Log("error", "Error installing Move Skills", "-"))
    /\ Exit(1)

\* a dispatch that accepts any token starting like init
IsInitLoose(c) == c \in {"init", "install"}

\* cli.js:84
IsInit(c) == c = "init"

\* a dispatch that forgot the short flag
IsHelpLongOnly(c) == c = "--help"

\* cli.js:87-88
IsHelp(c) == c \in {"--help", "-h"}

\* cli.js:80-105
Main ==
    /\ pc = "main"
    /\ CASE IsInit(command) ->
              /\ pc' = "init"
              /\ UNCHANGED <<console, exitCode>>
         [] IsHelp(command) ->
              /\ console' = console \o <<Log("log", "Move Skills CLI", "-"),
                                         Log("log", "Usage", "long")>>
              /\ Exit(0)
         [] command = "undefined" ->
              /\ console' = console \o <<Log("log", "Move Skills CLI", "-"),
                                         Log("log", "Usage", "short")>>
              /\ Exit(0)
         [] OTHER ->
              /\ console' = console \o <<Log("error", "Unknown command", command),
                                         Log("log", "Usage", "hint")>>
              /\ Exit(1)
    /\ UNCHANGED <<config, skillsDirExists, targetTree, idx, calls, history>>

\* the call record of one fs-extra call
Call(op, arg, result) == <<op, arg, result>>

\* a platform check that lets every identifier through
SupportedAny(p) == TRUE

\* cli.js:19-21, skillsDir is defined exactly for the keys of the table
Supported(p) == p \in CLAUDE_SKILLS_DIRS

\* cli.js:15-26
ResolvePlatform ==
    /\ pc = "init"
    /\ IF Supported(platform)
       THEN /\ console' = console \o <<Log("log", "Initializing", "-"),
                                       Log("log", "Target directory", platform)>>
            /\ pc' = "ensureDir"
            /\ UNCHANGED exitCode
       ELSE /\ console' = console \o <<Log("log", "Initializing", "-"),
                                       Log("error", "Unsupported platform", platform)>>
            /\ Exit(1)
    /\ UNCHANGED <<config, skillsDirExists, targetTree, idx, calls, history>>

\* fs.emptyDir in the place of fs.ensureDir: the directory exists afterwards
\* and holds nothing
EnsureDirEmpties ==
    /\ pc = "ensureDir"
    /\ skillsDirExists' = TRUE
    /\ targetTree' = [u \in Plugins |-> NoTree]
    /\ calls' = Append(calls, Call("ensureDir", <<"skillsDir", "-">>, "ok"))
    /\ pc' = "checkSourceDir"
    /\ UNCHANGED <<config, idx, console, exitCode, history>>

\* an init that goes from ensureDir straight to the loop over the plugins
EnsureDirThenLoop ==
    /\ pc = "ensureDir"
    /\ skillsDirExists' = TRUE
    /\ calls' = Append(calls, Call("ensureDir", <<"skillsDir", "-">>, "ok"))
    /\ pc' = "checkSourcePath"
    /\ UNCHANGED <<config, targetTree, idx, console, exitCode, history>>

\* the skills directory emptied of every entry (fs.emptyDir) before the install
EnsureDirEmptiesAll ==
    /\ pc = "ensureDir"
    /\ skillsDirExists' = TRUE
    /\ targetTree' = [u \in Plugins |-> NoTree]
    /\ otherEntries' = {}
    /\ calls' = Append(calls, Call("ensureDir", <<"skillsDir", "-">>, "ok"))
    /\ pc' = "checkSourceDir"
    /\ UNCHANGED <<command, platform, sourceDirExists, sourceTree, run, idx, console,
                   exitCode, history>>

\* cli.js:29, fs.ensureDir(skillsDir) resolves: the directory exists afterwards
EnsureDir ==
    /\ pc = "ensureDir"
    /\ skillsDirExists' = TRUE
    /\ calls' = Append(calls, Call("ensureDir", <<"skillsDir", "-">>, "ok"))
    /\ pc' = "checkSourceDir"
    /\ UNCHANGED <<config, targetTree, idx, console, exitCode, history>>

\* cli.js:29, fs.ensureDir(skillsDir) rejects: nothing was created.  It is
\* mkdir with recursive set, which resolves on a directory that exists; it
\* can only reject when the directory has to be created.
EnsureDirThrows ==
    /\ pc = "ensureDir"
    /\ ~skillsDirExists
    /\ calls' = Append(calls, Call("ensureDir", <<"skillsDir", "-">>, "throw"))
    /\ CatchError
    /\ UNCHANGED <<config, skillsDirExists, targetTree, idx, history>>

\* a check of the source directory that always passes
SourceDirAssumed == TRUE

\* cli.js:35, fs.pathExists(sourceDir)
SourceDirFound == sourceDirExists

\* cli.js:32-41
CheckSourceDir ==
    /\ pc = "checkSourceDir"
    /\ calls' = Append(calls, Call("pathExists", <<"sourceDir", "-">>,
                                   IF sourceDirExists THEN "true" ELSE "false"))
    /\ IF SourceDirFound
       THEN /\ pc' = "checkSourcePath"
            /\ idx' = 1
            /\ UNCHANGED <<console, exitCode>>
       ELSE /\ console' = Append(console, Log("error", "Source directory not found", "-"))
            /\ Exit(1)
            /\ UNCHANGED idx
    /\ UNCHANGED <<config, skillsDirExists, targetTree, history>>

\* the loop without the check of the source path
SourcePathAssumed(u) == TRUE

\* cli.js:48, fs.pathExists(sourcePath)
SourcePathExists(u) == sourceTree[u].exists

\* a missing plugin treated as fatal
SkipPluginExits(u) ==
    /\ console' = Append(console, Log("warn", "Plugin not found", u))
    /\ Exit(1)
    /\ UNCHANGED idx

\* cli.js:49-50
SkipPlugin(u) ==
    /\ console' = Append(console, Log("warn", "Plugin not found", u))
    /\ idx' = idx + 1
    /\ pc' = "checkSourcePath"
    /\ UNCHANGED exitCode

\* cli.js:43-51, the head of the loop; past the last plugin the loop ends
CheckSourcePath ==
    /\ pc = "checkSourcePath"
    /\ IF idx > Len(plugins)
       THEN /\ pc' = "summary"
            /\ UNCHANGED <<idx, console, calls, exitCode>>
       ELSE LET u == plugins[idx] IN
            /\ calls' = Append(calls, Call("pathExists", <<"source", u>>,
                                  IF sourceTree[u].exists THEN "true" ELSE "false"))
            /\ IF SourcePathExists(u)
               THEN /\ pc' = "checkTargetPath"
                    /\ UNCHANGED <<idx, console, exitCode>>
               ELSE SkipPlugin(u)
    /\ UNCHANGED <<config, skillsDirExists, targetTree, history>>

\* the condition of the update branch inverted
TargetPathMissing(u) == ~targetTree[u].exists

\* cli.js:54, fs.pathExists(targetPath)
TargetPathExists(u) == targetTree[u].exists

\* cli.js:53-59
CheckTargetPath ==
    /\ pc = "checkTargetPath"
    /\ LET u == plugins[idx] IN
       /\ calls' = Append(calls, Call("pathExists", <<"target", u>>,
                             IF targetTree[u].exists THEN "true" ELSE "false"))
       /\ IF TargetPathExists(u)
          THEN /\ console' = Append(console, Log("log", "Updating", u))
               /\ pc' = "remove"
          ELSE /\ console' = Append(console, Log("log", "Installing", u))
               /\ pc' = "copy"
    /\ UNCHANGED <<config, skillsDirExists, targetTree, idx, exitCode, history>>

\* a removal that leaves the tree in place
RemoveKeeps(t) == t

\* cli.js:56, fs.remove(path): the path and everything under it are gone
RemoveTree(t) == NoTree

\* cli.js:56, fs.remove(path) rejecting part-way: any part of the tree may be left
RemoveOutcomes(t) ==
    {[exists |-> TRUE,
      files |-> [p \in Paths |-> IF p \in S THEN t.files[p] ELSE "absent"]] :
        S \in SUBSET FilesOf(t)}

\* the copy placed in the else branch: an update only removes
AfterRemoveSkipsCopy == "checkSourcePath"

\* cli.js:56-62, after the removal control falls through to the copy
AfterRemove == "copy"

\* the removal applied to the skills directory instead of to targetPath
RemoveSkillsDir ==
    /\ pc = "remove"
    /\ targetTree' = [v \in Plugins |-> RemoveTree(targetTree[v])]
    /\ calls' = Append(calls, Call("remove", <<"target", plugins[idx]>>, "ok"))
    /\ pc' = AfterRemove
    /\ idx' = IF AfterRemove = "copy" THEN idx ELSE idx + 1
    /\ UNCHANGED <<config, skillsDirExists, console, exitCode, history>>

\* cli.js:56, fs.remove(targetPath) resolves
Remove ==
    /\ pc = "remove"
    /\ LET u == plugins[idx] IN
       /\ targetTree' = [targetTree EXCEPT ![u] = RemoveTree(targetTree[u])]
       /\ calls' = Append(calls, Call("remove", <<"target", u>>, "ok"))
    /\ pc' = AfterRemove
    /\ idx' = IF AfterRemove = "copy" THEN idx ELSE idx + 1
    /\ UNCHANGED <<config, skillsDirExists, console, exitCode, history>>

\* cli.js:56, fs.remove(targetPath) rejects
RemoveThrows ==
    /\ pc = "remove"
    /\ LET u == plugins[idx] IN
       /\ \E t \in RemoveOutcomes(targetTree[u]) :
              targetTree' = [targetTree EXCEPT ![u] = t]
       /\ calls' = Append(calls, Call("remove", <<"target", u>>, "throw"))
    /\ CatchError
    /\ UNCHANGED <<config, skillsDirExists, idx, history>>

\* cli.js:62, what fs.copy has done once the files S of src are written: dest is created
\* when missing, a file of src overwrites the file at the same relative path,
\* every other file of dest stays
CopyFiles(src, dst, S) ==
    [exists |-> TRUE,
     files |-> [p \in Paths |-> IF p \in S THEN src.files[p] ELSE dst.files[p]]]

\* a copy that misses the last file of src
CopyTreeMissesFile(src, dst) == CopyFiles(src, dst, FilesOf(src) \ {NumFiles})

\* cli.js:62, fs.copy(src, dest) resolving: every file of src is written
CopyTree(src, dst) == CopyFiles(src, dst, FilesOf(src))

\* a replacement that puts the previous copy back when the copy is rejected
CopyOutcomesRestore(src, dst) == {startTree[plugins[idx]]}

\* cli.js:62, fs.copy(src, dest) rejecting: dest untouched, or created with a part of src
CopyOutcomes(src, dst) ==
    {dst} \cup {CopyFiles(src, dst, S) : S \in (SUBSET FilesOf(src)) \ {FilesOf(src)}}

\* the plugin moved out of the package instead of copied
CopyMoves ==
    /\ pc = "copy"
    /\ LET u == plugins[idx] IN
       /\ targetTree' = [targetTree EXCEPT ![u] = CopyTree(sourceTree[u], targetTree[u])]
       /\ sourceTree' = [sourceTree EXCEPT ![u] = NoTree]
       /\ calls' = Append(calls, Call("copy", <<"target", u>>, "ok"))
       /\ console' = Append(console, Log("log", "installed successfully", u))
    /\ idx' = idx + 1
    /\ pc' = "checkSourcePath"
    /\ UNCHANGED <<command, platform, sourceDirExists, otherEntries, run,
                   skillsDirExists, exitCode, history>>

\* cli.js:62-63, fs.copy(sourcePath, targetPath) resolves
Copy ==
    /\ pc = "copy"
    /\ LET u == plugins[idx] IN
       /\ targetTree' = [targetTree EXCEPT ![u] = CopyTree(sourceTree[u], targetTree[u])]
       /\ calls' = Append(calls, Call("copy", <<"target", u>>, "ok"))
       /\ console' = Append(console, Log("log", "installed successfully", u))
    /\ idx' = idx + 1
    /\ pc' = "checkSourcePath"
    /\ UNCHANGED <<config, skillsDirExists, exitCode, history>>

\* the success message printed before the copy is awaited
CopyThrowsAfterReport ==
    /\ pc = "copy"
    /\ LET u == plugins[idx] IN
       /\ \E t \in CopyOutcomes(sourceTree[u], targetTree[u]) :
              targetTree' = [targetTree EXCEPT ![u] = t]
       /\ calls' = Append(calls, Call("copy", <<"target", u>>, "throw"))
       /\ console' = console \o <<Log("log", "installed successfully", u),
                                  Log("error", "Error installing Move Skills", "-")>>
    /\ Exit(1)
    /\ UNCHANGED <<config, skillsDirExists, idx, history>>

\* a failing copy that restores the skills directory to its state at start
CopyThrowsRollsBack ==
    /\ pc = "copy"
    /\ targetTree' = startTree
    /\ calls' = Append(calls, Call("copy", <<"target", plugins[idx]>>, "throw"))
    /\ CatchError
    /\ UNCHANGED <<config, skillsDirExists, idx, history>>

\* cli.js:62, fs.copy(sourcePath, targetPath) rejects
CopyThrows ==
    /\ pc = "copy"
    /\ LET u == plugins[idx] IN
       /\ \E t \in CopyOutcomes(sourceTree[u], targetTree[u]) :
              targetTree' = [targetTree EXCEPT ![u] = t]
       /\ calls' = Append(calls, Call("copy", <<"target", u>>, "throw"))
    /\ CatchError
    /\ UNCHANGED <<config, skillsDirExists, idx, history>>

\* a summary after which the process stays alive
SummaryThenHangs ==
    /\ pc = "summary"
    /\ console' = console \o <<Log("log", "Move Skills installed successfully", "-"),
                               Log("log", "Next steps", "-"),
                               Log("log", "Available skills", "-"),
                               Log("log", "skill", "aptos-move-contract"),
                               Log("log", "skill", "aptos-ts-sdk")>>
    /\ pc' = "waiting"
    /\ UNCHANGED <<config, skillsDirExists, targetTree, idx, calls, exitCode, history>>

\* cli.js:66-72, then init() and main() return and the process ends with 0
Summary ==
    /\ pc = "summary"
    /\ console' = console \o <<Log("log", "Move Skills installed successfully", "-"),
                               Log("log", "Next steps", "-"),
                               Log("log", "Available skills", "-"),
                               Log("log", "skill", "aptos-move-contract"),
                               Log("log", "skill", "aptos-ts-sdk")>>
    /\ Exit(0)
    /\ UNCHANGED <<config, skillsDirExists, targetTree, idx, calls, history>>

\* some fs-extra call of this run rejected
Faulted == \E k \in DOMAIN calls : calls[k][3] = "throw"

\* The program is invoked again with the same arguments on the same host and
\* package ("To update ... npx move-skills init")
Invoke ==
    /\ pc = "exited"
    /\ pc' = "main"
    /\ idx' = 1
    /\ console' = <<>>
    /\ calls' = <<>>
    /\ exitCode' = -1
    /\ startDirExists' = skillsDirExists
    /\ startTree' = targetTree
    /\ prev' = IF Faulted THEN "faulted" ELSE "clean"
    /\ UNCHANGED <<config, skillsDirExists, targetTree>>

Next ==
    \/ Main
    \/ ResolvePlatform
    \/ EnsureDir
    \/ EnsureDirThrows
    \/ CheckSourceDir
    \/ CheckSourcePath
    \/ CheckTargetPath
    \/ Remove
    \/ RemoveThrows
    \/ Copy
    \/ CopyThrows
    \/ Summary
    \/ Invoke

Spec == Init /\ [][Next]_vars

\* a step of the running process
Step ==
    \/ Main
    \/ ResolvePlatform
    \/ EnsureDir
    \/ EnsureDirThrows
    \/ CheckSourceDir
    \/ CheckSourcePath
    \/ CheckTargetPath
    \/ Remove
    \/ RemoveThrows
    \/ Copy
    \/ CopyThrows
    \/ Summary

\* One run of the program.  Every awaited call resolves or rejects and
\* synchronous code runs on: a process that can take a step eventually takes
\* one.
FairSpec == Init /\ [][Step]_vars /\ WF_vars(Step)

TypeOK ==
    /\ command \in Commands
    /\ platform \in Platforms
    /\ pc \in {"main", "init", "ensureDir", "checkSourceDir", "checkSourcePath",
               "checkTargetPath", "remove", "copy", "summary", "exited"}
    /\ idx \in 1..(Len(plugins) + 1)
    /\ exitCode \in {-1, 0, 1}
    /\ (pc = "exited") = (exitCode # -1)
    /\ prev \in {"none", "clean", "faulted"}
    /\ otherEntries \subseteq OtherNames

(***************************************************************************)
(* Vocabulary of the properties                                            *)
(***************************************************************************)

Exited == pc = "exited"

\* the run made the fs-extra call op on plugin u's target with the given result
Did(op, u, result) == \E k \in DOMAIN calls : calls[k] = Call(op, <<"target", u>>, result)

Copied(u) == Did("copy", u, "ok")

\* the calls of this run that can change the filesystem
WriteCalls == {k \in DOMAIN calls : calls[k][1] \in {"ensureDir", "remove", "copy"}}

Printed(stream, msg, arg) == \E k \in DOMAIN console : console[k] = Log(stream, msg, arg)

TimesPrinted(stream, msg, arg) ==
    Cardinality({k \in DOMAIN console : console[k] = Log(stream, msg, arg)})

SummaryPrinted == Printed("log", "Move Skills installed successfully", "-")

\* the skills directory and everything under it are as they were at start
TargetUntouched ==
    /\ skillsDirExists = startDirExists
    /\ targetTree = startTree

\* files of the old copy of u that the source of u does not hold
StaleFiles(u) == {p \in Paths : startTree[u].files[p] # "absent"
                                /\ sourceTree[u].files[p] = "absent"}

(***************************************************************************)
(* C1                                                                      *)
(***************************************************************************)

\* C1 as stated: with the source directory missing, init leaves the skills
\* directory as it was at start (not created, nothing under it changed) and
\* exits non-zero.
C1_AsStated ==
    (Exited /\ command = "init" /\ ~sourceDirExists)
        => (exitCode = 1 /\ TargetUntouched)

\* C1 (amended): with the source directory missing, init exits non-zero and
\* nothing under the skills directory is created, removed or changed: no
\* remove or copy is called and every plugin's target is as at start.  The
\* skills directory itself exists afterwards exactly when it existed at start
\* or ensureDir (which runs before the source check) has created it.
C1_SourceDirMissing ==
    (Exited /\ command = "init" /\ ~sourceDirExists)
        => /\ exitCode = 1
           /\ targetTree = startTree
           /\ \A k \in WriteCalls : calls[k][1] = "ensureDir"
           /\ skillsDirExists =
                (startDirExists \/ Call("ensureDir", <<"skillsDir", "-">>, "ok") \in
                                     {calls[k] : k \in DOMAIN calls})

\* the source directory is missing and the run has created the skills directory
C1_Witness ==
    /\ Exited /\ command = "init" /\ ~sourceDirExists
    /\ Printed("error", "Source directory not found", "-")
    /\ ~startDirExists /\ skillsDirExists

(***************************************************************************)
(* C2                                                                      *)
(***************************************************************************)

\* C2: after an init that exits zero, for every plugin whose source exists no
\* file of the old target copy that has no counterpart in the source is left.
C2_StaleFilesGone ==
    (Exited /\ command = "init" /\ exitCode = 0)
        => \A u \in Plugins : sourceTree[u].exists
               => \A p \in StaleFiles(u) : targetTree[u].files[p] = "absent"

\* a successful run that updated a plugin whose old copy held a stale file
C2_Witness ==
    /\ Exited /\ command = "init" /\ exitCode = 0
    /\ \E u \in Plugins : /\ sourceTree[u].exists
                          /\ StaleFiles(u) # {}
                          /\ Did("remove", u, "ok")
                          /\ Copied(u)

(***************************************************************************)
(* C3                                                                      *)
(***************************************************************************)

\* C3: after an init that exits zero the skills directory exists and, for every
\* plugin whose source exists, the target tree (paths and contents) equals the
\* source tree.
C3_TargetEqualsSource ==
    (Exited /\ command = "init" /\ exitCode = 0)
        => /\ skillsDirExists
           /\ \A u \in Plugins : sourceTree[u].exists => targetTree[u] = sourceTree[u]

\* a successful run into a skills directory that did not exist, with both
\* plugins bundled and every path of the first one in use
C3_Witness ==
    /\ Exited /\ command = "init" /\ exitCode = 0
    /\ ~startDirExists
    /\ \A u \in Plugins : sourceTree[u].exists /\ Copied(u)
    /\ FilesOf(sourceTree[plugins[1]]) = Paths
    /\ targetTree = sourceTree

(***************************************************************************)
(* C4                                                                      *)
(***************************************************************************)

\* C4: when init has run to its end twice in succession, no filesystem call
\* rejecting in either run, the skills directory after the second run is
\* identical to the skills directory after the first run.
C4_Idempotent ==
    (Exited /\ command = "init" /\ prev = "clean" /\ ~Faulted) => TargetUntouched

\* a second successful run that removed and copied a plugin again
C4_Witness ==
    /\ Exited /\ command = "init" /\ prev = "clean" /\ ~Faulted
    /\ exitCode = 0
    /\ \E u \in Plugins : /\ Did("remove", u, "ok") /\ Copied(u)
                          /\ FilesOf(targetTree[u]) # {}

(***************************************************************************)
(* C5                                                                      *)
(***************************************************************************)

\* C5: on a platform that is no key of CLAUDE_SKILLS_DIRS init exits non-zero,
\* having made no filesystem call at all; the skills directory is not created
\* and no plugin is processed.
C5_UnsupportedPlatform ==
    (command = "init" /\ platform \notin {"darwin", "linux", "win32"})
        => /\ pc \in {"main", "init", "exited"}
           /\ calls = <<>>
           /\ TargetUntouched
           /\ Exited => exitCode = 1

\* init has ended on an unsupported platform with the skills directory absent
C5_Witness ==
    /\ Exited /\ command = "init" /\ platform = "freebsd"
    /\ Printed("error", "Unsupported platform", "freebsd")
    /\ ~skillsDirExists

(***************************************************************************)
(* C6                                                                      *)
(***************************************************************************)

MissingPlugins == {u \in Plugins : ~sourceTree[u].exists}

Warnings == {k \in DOMAIN console : console[k][1] = "warn"}

\* C6: on a supported platform with the source directory present and no
\* filesystem call rejecting, whichever plugins lack their source path, init
\* copies every plugin whose source path exists, prints exactly one warning per
\* missing plugin (and no other warning), prints the success summary and exits
\* zero.
C6_MissingPluginNotFatal ==
    (Exited /\ command = "init" /\ platform \in {"darwin", "linux", "win32"}
            /\ sourceDirExists /\ ~Faulted)
        => /\ exitCode = 0
           /\ SummaryPrinted
           /\ \A u \in Plugins \ MissingPlugins :
                  Copied(u) /\ targetTree[u] = sourceTree[u]
           /\ \A u \in MissingPlugins :
                  TimesPrinted("warn", "Plugin not found", u) = 1
           /\ Cardinality(Warnings) = Cardinality(MissingPlugins)

\* exactly one of the two plugins is missing: the other one was copied over an
\* older copy and one warning was printed
C6_Witness ==
    /\ Exited /\ command = "init" /\ exitCode = 0
    /\ Cardinality(MissingPlugins) = 1
    /\ Cardinality(Warnings) = 1
    /\ \E u \in Plugins : /\ Copied(u)
                          /\ startTree[u] # sourceTree[u]
                          /\ targetTree[u] = sourceTree[u]

(***************************************************************************)
(* C7                                                                      *)
(***************************************************************************)

\* C7: invoked with --help, -h or no argument the program makes no filesystem
\* call, leaves the skills directory as it was, is never anywhere but at the
\* dispatch or at its end, and ends with exit status 0.
C7_HelpTouchesNothing ==
    (command \in {"--help", "-h", "undefined"})
        => /\ pc \in {"main", "exited"}
           /\ calls = <<>>
           /\ TargetUntouched
           /\ Exited => exitCode = 0

\* the short flag has printed the usage text and the process has ended
C7_Witness ==
    /\ Exited /\ command = "-h"
    /\ Printed("log", "Usage", "long")

(***************************************************************************)
(* C8                                                                      *)
(***************************************************************************)

FatalCondition ==
    \/ platform \notin {"darwin", "linux", "win32"}
    \/ ~sourceDirExists
    \/ Faulted

\* C9: when init has ended its exit status is 1 exactly when a fatal condition
\* occurred and 0 exactly when the success summary was printed; which plugins
\* lack their source path has no part in it.
C9_ExitStatus ==
    (Exited /\ command = "init")
        => /\ exitCode \in {0, 1}
           /\ (exitCode = 1) = FatalCondition
           /\ (exitCode = 0) = SummaryPrinted

\* a run that ended with 1 because a removal was rejected
C9_Witness ==
    /\ Exited /\ command = "init" /\ exitCode = 1
    /\ platform \in {"darwin", "linux", "win32"} /\ sourceDirExists
    /\ \E u \in Plugins : Did("remove", u, "throw")

(***************************************************************************)
(* C10                                                                     *)
(***************************************************************************)

\* the call records that concern plugin u
CallsOn(u) == {k \in DOMAIN calls : calls[k][2][2] = u}

\* C10: when the copy of a plugin is rejected, that call is the last of the
\* run: the process ends with exit status 1 without the summary, no call is
\* made on a plugin later in the list, and every plugin copied earlier in the
\* run still equals its source.
C10_CopyFailureFatalNoRollback ==
    \A i \in DOMAIN plugins :
        \A k \in DOMAIN calls :
            calls[k] = Call("copy", <<"target", plugins[i]>>, "throw")
                => /\ k = Len(calls)
                   /\ Exited /\ exitCode = 1 /\ ~SummaryPrinted
                   /\ \A j \in DOMAIN plugins :
                          /\ j > i => CallsOn(plugins[j]) = {}
                                      /\ targetTree[plugins[j]] = startTree[plugins[j]]
                          /\ (j < i /\ Copied(plugins[j]))
                                => targetTree[plugins[j]] = sourceTree[plugins[j]]

\* the copy of the second plugin was rejected after the first plugin had been
\* copied over a different older copy
C10_Witness ==
    /\ Exited /\ exitCode = 1
    /\ Did("copy", plugins[2], "throw")
    /\ Copied(plugins[1])
    /\ startTree[plugins[1]] # sourceTree[plugins[1]]
    /\ targetTree[plugins[1]] = sourceTree[plugins[1]]

(***************************************************************************)
(* Paths.  A path is the sequence of its segments; path.join appends       *)
(* segments.  "~" stands for the home directory, os.homedir().             *)
(***************************************************************************)

\* cli.js:8, os.homedir()
homedir == <<"~">>

\* path.join(base, ...segments)
PathJoin(base, segments) == base \o segments

\* a table whose linux entry lost the dot of .config
SkillsDirNoDot(p) ==
    CASE p = "darwin" ->
             PathJoin(homedir, <<"Library", "Application Support", "Claude", "skills">>)
      [] p = "linux" -> PathJoin(homedir, <<"config", "Claude", "skills">>)
      [] p = "win32" -> PathJoin(homedir, <<"AppData", "Roaming", "Claude", "skills">>)

\* cli.js:7-11 and 19, CLAUDE_SKILLS_DIRS[platform] for the keys of the table
SkillsDir(p) ==
    CASE p = "darwin" ->
             PathJoin(homedir, <<"Library", "Application Support", "Claude", "skills">>)
      [] p = "linux" -> PathJoin(homedir, <<".config", "Claude", "skills">>)
      [] p = "win32" -> PathJoin(homedir, <<"AppData", "Roaming", "Claude", "skills">>)

\* %APPDATA% at its default value, <home>\AppData\Roaming
APPDATA == <<"~", "AppData", "Roaming">>

\* README "Installation Locations": the documented directory per platform,
\* split at the separators, the trailing separator dropped
InstallationLocations ==
    [darwin |-> <<"~", "Library", "Application Support", "Claude", "skills">>,
     linux  |-> <<"~", ".config", "Claude", "skills">>,
     win32  |-> APPDATA \o <<"Claude", "skills">>]

(***************************************************************************)
(* C11                                                                     *)
(***************************************************************************)

TargetDirectoryLines == {k \in DOMAIN console : console[k][2] = "Target directory"}

ListedInSummary == {u \in Plugins : Printed("log", "skill", u)}

\* C12: in a run that printed the success summary the plugins the summary
\* lists are exactly the plugins the run copied; a plugin skipped for want of
\* its source path is not listed.
C12_SummaryListsInstalled ==
    SummaryPrinted => ListedInSummary = {u \in Plugins : Copied(u)}

(***************************************************************************)
(* C13                                                                     *)
(***************************************************************************)

\* the console.error lines of this run
Errors == {k \in DOMAIN console : console[k][1] = "error"}

\* the diagnostic that names the condition the run ended on
ExpectedDiagnostic ==
    CASE command \in {"--help", "-h", "undefined"} -> "none"
      [] command # "init" -> "Unknown command"
      [] platform \notin {"darwin", "linux", "win32"} -> "Unsupported platform"
      [] Faulted -> "Error installing Move Skills"
      [] ~sourceDirExists -> "Source directory not found"
      [] OTHER -> "none"

\* C13: a process that has ended with a non-zero status has printed exactly
\* one console.error line, the one naming its condition; and an error line is
\* only ever printed by a process that ends with a non-zero status.
C13_OneDiagnosticPerFailure ==
    /\ (Exited /\ exitCode # 0)
           => /\ Cardinality(Errors) = 1
              /\ \A k \in Errors : console[k][2] = ExpectedDiagnostic
    /\ Errors # {} => (Exited /\ exitCode = 1)

\* a run that skipped the first plugin with a warning and then failed in the
\* copy of the second
C13_Witness ==
    /\ Exited /\ exitCode = 1
    /\ Printed("warn", "Plugin not found", "aptos-move-contract")
    /\ Did("copy", "aptos-ts-sdk", "throw")
    /\ Printed("error", "Error installing Move Skills", "-")

(***************************************************************************)
(* C14                                                                     *)
(***************************************************************************)

\* the step of init a position belongs to
Stage(p) ==
    CASE p = "main" -> 0
      [] p = "init" -> 1
      [] p = "ensureDir" -> 2
      [] p = "checkSourceDir" -> 3
      [] p \in {"checkSourcePath", "checkTargetPath", "remove", "copy"} -> 4
      [] p = "summary" -> 5
      [] OTHER -> 6

\* the position inside the processing of one plugin
SubStep(p) ==
    CASE p = "checkSourcePath" -> 0
      [] p = "checkTargetPath" -> 1
      [] p = "remove" -> 2
      [] OTHER -> 3

\* the calls made on a plugin's source or target path
PluginCalls == {k \in DOMAIN calls : calls[k][2][1] \in {"source", "target"}}

\* the order of the filesystem calls of a run
StepsInOrder ==
    /\ \A k \in DOMAIN calls :
           /\ (calls[k][1] = "ensureDir") = (k = 1)
           /\ (calls[k][2][1] = "sourceDir") = (k = 2)
    /\ Len(calls) >= 2 => calls[1] = Call("ensureDir", <<"skillsDir", "-">>, "ok")
    /\ PluginCalls # {} => calls[2] = Call("pathExists", <<"sourceDir", "-">>, "true")
    /\ Stage(pc) \in {0, 1, 2} => PluginCalls = {} /\ Len(calls) = 0
    /\ Stage(pc) = 3 => Len(calls) = 1
    /\ SummaryPrinted => Exited

\* a step of a run moves forward: to a later stage or, among the plugins, to a
\* later plugin or a later position on the same plugin
StepForward ==
    pc # "exited" =>
        \/ Stage(pc') > Stage(pc)
        \/ /\ Stage(pc') = 4 /\ Stage(pc) = 4
           /\ \/ idx' > idx
              \/ idx' = idx /\ SubStep(pc') > SubStep(pc)

\* C14: the steps of init happen in the order platform resolution, skills
\* directory ensured, source directory checked, plugins processed, summary: the
\* first filesystem call is ensureDir, the second the check of the source
\* directory, a plugin's path is only touched after that check returned true,
\* and no step is taken twice.
C14_LinearOrder == [](StepsInOrder) /\ [][StepForward]_vars

\* a run that went through every step: both plugins copied, summary printed
C14_Witness ==
    /\ Exited /\ exitCode = 0 /\ SummaryPrinted
    /\ \A u \in Plugins : Copied(u)
    /\ calls[1][1] = "ensureDir" /\ calls[2][2][1] = "sourceDir"

(***************************************************************************)
(* C15                                                                     *)
(***************************************************************************)

\* plugin u has been skipped with a warning, or copied completely and reported
Finished(u) ==
    \/ Printed("warn", "Plugin not found", u)
    \/ /\ Copied(u)
       /\ Printed("log", "installed successfully", u)
       /\ targetTree[u] = sourceTree[u]

\* C15: plugins are processed one at a time in the order aptos-move-contract,
\* aptos-ts-sdk: once any call (existence check, removal, copy) has been made
\* on aptos-ts-sdk, aptos-move-contract has been skipped with a warning or
\* completely copied and reported, and every call on it came earlier.
C15_ListedOrder ==
    CallsOn("aptos-ts-sdk") # {}
        => /\ Finished("aptos-move-contract")
           /\ \A k \in CallsOn("aptos-move-contract") :
                  \A m \in CallsOn("aptos-ts-sdk") : k < m

\* the run is about to remove the old copy of aptos-ts-sdk, having updated
\* aptos-move-contract
C15_Witness ==
    /\ pc = "remove" /\ plugins[idx] = "aptos-ts-sdk"
    /\ Did("remove", "aptos-move-contract", "ok")
    /\ Copied("aptos-move-contract")

(***************************************************************************)
(* C16                                                                     *)
(***************************************************************************)

\* the two terminal states of an init run
EndedInSuccess == Exited /\ exitCode = 0 /\ SummaryPrinted
EndedInFailure == Exited /\ exitCode = 1 /\ ~SummaryPrinted

\* C16: every init run that is started ends, and it ends in exactly one of
\* Success (summary printed, exit 0) and Failure (exit non-zero, no summary);
\* the summary is never printed in a run that exits non-zero.
C16_Terminates ==
    /\ (command = "init" /\ pc = "main") ~> (EndedInSuccess \/ EndedInFailure)
    /\ [](command = "init" => /\ Exited => (EndedInSuccess \/ EndedInFailure)
                              /\ ~(EndedInSuccess /\ EndedInFailure)
                              /\ (SummaryPrinted /\ Exited) => exitCode = 0)

\* a run has ended in failure after a rejected removal on its second plugin
C16_Witness ==
    /\ command = "init" /\ EndedInFailure
    /\ Copied(plugins[1])
    /\ Did("remove", plugins[2], "throw")

(***************************************************************************)
(* C17                                                                     *)
(***************************************************************************)

CallRecords == {calls[k] : k \in DOMAIN calls}

\* the existence check of u's target was made and returned r
TargetChecked(u, r) == Call("pathExists", <<"target", u>>, r) \in CallRecords

RemoveCalled(u) == Did("remove", u, "ok") \/ Did("remove", u, "throw")

\* C17: for each plugin whose source exists the target is removed before the
\* copy exactly when it existed at the check: 'Updating' is printed exactly
\* when the check found the target (and then the next call is the removal),
\* 'Installing' exactly when it did not (and then no removal is made and the
\* next call is the copy); a copy directly follows a completed removal or a
\* check that found nothing.
C17_UpdateOrInstall ==
    /\ \A k \in DOMAIN console :
           /\ console[k][2] = "Updating" => TargetChecked(console[k][3], "true")
           /\ console[k][2] = "Installing" => TargetChecked(console[k][3], "false")
    /\ \A k \in DOMAIN calls :
           calls[k][2][1] = "target" =>
               LET u == calls[k][2][2]
                   op == calls[k][1]
                   found == calls[k][3] = "true"
               IN  /\ op = "pathExists" =>
                          /\ found = startTree[u].exists
                          /\ Printed("log", "Updating", u) = found
                          /\ Printed("log", "Installing", u) = ~found
                          /\ k < Len(calls) =>
                                 /\ calls[k + 1][1] = IF found THEN "remove" ELSE "copy"
                                 /\ calls[k + 1][2] = calls[k][2]
                   /\ op = "remove" =>
                          calls[k - 1] = Call("pathExists", <<"target", u>>, "true")
                   /\ op = "copy" =>
                          calls[k - 1] \in {Call("remove", <<"target", u>>, "ok"),
                                            Call("pathExists", <<"target", u>>, "false")}

\* a successful run that updated one plugin and installed the other
C17_Witness ==
    /\ Exited /\ exitCode = 0
    /\ \E u, v \in Plugins :
           /\ Printed("log", "Updating", u) /\ Did("remove", u, "ok") /\ Copied(u)
           /\ Printed("log", "Installing", v) /\ ~RemoveCalled(v) /\ Copied(v)

(***************************************************************************)
(* C18                                                                     *)
(***************************************************************************)

EnsureDirResolved == Call("ensureDir", <<"skillsDir", "-">>, "ok") \in CallRecords
EnsureDirRejected == Call("ensureDir", <<"skillsDir", "-">>, "throw") \in CallRecords

ReportedInstalled(u) == Printed("log", "installed successfully", u)

\* C19: '<plugin> installed successfully' is printed at most once per run and
\* only once the plugin's copy has resolved: whenever it has been printed the
\* plugin's target tree equals its source tree; a plugin that was skipped or
\* whose copy was rejected has no such message.
C19_SuccessMessageAfterCopy ==
    \A u \in Plugins :
        /\ TimesPrinted("log", "installed successfully", u) <= 1
        /\ ReportedInstalled(u) => (Copied(u) /\ targetTree[u] = sourceTree[u])
        /\ Copied(u) => ReportedInstalled(u)
        /\ Printed("warn", "Plugin not found", u) => ~ReportedInstalled(u)
        /\ Did("copy", u, "throw") => ~ReportedInstalled(u)

\* the first plugin was reported and still equals its source after the copy of
\* the second was rejected
C19_Witness ==
    /\ Exited
    /\ ReportedInstalled(plugins[1])
    /\ FilesOf(targetTree[plugins[1]]) # {}
    /\ Did("copy", plugins[2], "throw")
    /\ ~ReportedInstalled(plugins[2])

(***************************************************************************)
(* C20                                                                     *)
(***************************************************************************)

\* cli.js:32, __dirname is the directory of cli.js
dirname == <<"__dirname">>

\* cli.js:32
sourceDir == PathJoin(dirname, <<"move_claude_skill", "plugins">>)

\* cli.js:45
sourcePath(u) == PathJoin(sourceDir, <<u, "skills", u>>)

\* every plugin copied straight into the skills directory
targetPathFlat(p, u) == SkillsDir(p)

\* cli.js:46
targetPath(p, u) == PathJoin(SkillsDir(p), <<u>>)

Parent(path) == SubSeq(path, 1, Len(path) - 1)

Basename(path) == path[Len(path)]

\* a is b or an ancestor of b
IsPrefix(a, b) == Len(a) <= Len(b) /\ SubSeq(b, 1, Len(a)) = a

\* C20: whenever a run is working on a plugin (its paths are in scope), the
\* plugin is one of the two listed, its target path is the direct child of the
\* skills directory named after it and its source path is
\* <source directory>/<plugin>/skills/<plugin>; the target path of the other
\* plugin differs from it and neither lies inside the other.
C20_PluginPaths ==
    pc \in {"checkTargetPath", "remove", "copy"} =>
        LET u == plugins[idx]
            t == targetPath(platform, u)
            s == sourcePath(u)
        IN  /\ u \in {"aptos-move-contract", "aptos-ts-sdk"}
            /\ Parent(t) = SkillsDir(platform)
            /\ Basename(t) = u
            /\ Parent(Parent(Parent(s))) = sourceDir
            /\ Basename(Parent(Parent(s))) = u
            /\ Basename(Parent(s)) = "skills"
            /\ Basename(s) = u
            /\ \A v \in {"aptos-move-contract", "aptos-ts-sdk"} \ {u} :
                   /\ targetPath(platform, v) # t
                   /\ ~IsPrefix(targetPath(platform, v), t)
                   /\ ~IsPrefix(t, targetPath(platform, v))

\* a run on linux is about to copy aptos-ts-sdk to its target path
C20_Witness ==
    /\ platform = "linux" /\ pc = "copy" /\ plugins[idx] = "aptos-ts-sdk"
    /\ targetPath(platform, plugins[idx]) =
           <<"~", ".config", "Claude", "skills", "aptos-ts-sdk">>
    /\ sourcePath(plugins[idx]) =
           <<"__dirname", "move_claude_skill", "plugins", "aptos-ts-sdk", "skills",
             "aptos-ts-sdk">>

\* ---------------------------------------------------------------------
\* Frame properties of the loop (cli.js:43-64)

\* the positions of the process inside the body of the for loop
InLoopBody == pc \in {"checkSourcePath", "checkTargetPath", "remove", "copy"} /\ idx \in DOMAIN plugins

\* C21: a step taken while the loop is processing one plugin (its skip, its
\* removal, its copy, or a copy or removal that is rejected) leaves the target
\* tree of every other plugin exactly as it was before the step.
C21_PluginsDoNotInteract ==
    [][InLoopBody =>
        \A v \in Plugins \ {plugins[idx]} : targetTree'[v] = targetTree[v]]_vars

\* the second plugin was replaced while the first one, installed by this run
\* with at least one file, sits beside it
C21_Witness ==
    /\ Exited /\ exitCode = 0
    /\ Did("remove", plugins[2], "ok") /\ Copied(plugins[2])
    /\ Copied(plugins[1])
    /\ FilesOf(targetTree[plugins[1]]) # {}

\* fs.pathExists(sourcePath) answered false for plugin u in this run
SourcePathFoundMissing(u) ==
    \E k \in DOMAIN calls : calls[k] = Call("pathExists", <<"source", u>>, "false")

\* C22: once the source path of a plugin has been found missing, the plugin is
\* skipped with a warning and nothing is ever called on its target path: the
\* tree a previous install left at the target path stays on disk as it was
\* when the run started, up to and including a successful exit.
C22_SkipLeavesTarget ==
    \A u \in Plugins :
        SourcePathFoundMissing(u) =>
            /\ targetTree[u] = startTree[u]
            /\ Printed("warn", "Plugin not found", u)
            /\ \A k \in CallsOn(u) : calls[k][2][1] = "source"

\* a successful run ends with a plugin under the skills directory that the
\* package does not bundle
C22_Witness ==
    /\ Exited /\ exitCode = 0 /\ SummaryPrinted
    /\ \E u \in Plugins :
          /\ ~sourceTree[u].exists
          /\ SourcePathFoundMissing(u)
          /\ targetTree[u].exists /\ FilesOf(targetTree[u]) # {}

\* the tree at the target path of u is missing or holds only a proper part of
\* the files of the source, each as bundled
AbsentOrPartialCopy(u) ==
    \/ targetTree[u] = NoTree
    \/ /\ targetTree[u].exists
       /\ FilesOf(targetTree[u]) \subseteq FilesOf(sourceTree[u])
       /\ FilesOf(targetTree[u]) # FilesOf(sourceTree[u])
       /\ \A p \in FilesOf(targetTree[u]) : targetTree[u].files[p] = "bundled"

\* C23: when the target path of a plugin existed at the start of the run, its
\* removal resolved and its copy was rejected, the run has exited with status 1
\* and the target path is missing or holds only a part of the new copy; and
\* from the moment the removal resolved no file of the removed tree that the
\* package did not write is ever at the target path again.
C23_OldCopyNotRestored ==
    \A u \in Plugins :
        (startTree[u].exists /\ Did("remove", u, "ok")) =>
            /\ \A p \in Paths : targetTree[u].files[p] # "other"
            /\ Did("copy", u, "throw") =>
                  /\ Exited /\ exitCode = 1
                  /\ AbsentOrPartialCopy(u)

\* an update whose copy was rejected: the old files are gone
C23_Witness ==
    \E u \in Plugins :
        /\ FilesOf(startTree[u]) # {}
        /\ Did("remove", u, "ok") /\ Did("copy", u, "throw")
        /\ Exited /\ exitCode = 1
        /\ targetTree[u] # startTree[u]

\* C26: no step of a run, whether it ends in success or in failure, changes
\* the package: the source directory and the source tree of every plugin are
\* after the step what they were before it.
C26_SourceOnlyRead ==
    [][/\ sourceDirExists' = sourceDirExists
       /\ \A u \in Plugins : sourceTree'[u] = sourceTree[u]]_vars

\* a plugin was copied from a source that holds files, and the source still
\* holds them after the run
C26_Witness ==
    /\ Exited
    /\ \E u \in Plugins :
          /\ Copied(u)
          /\ FilesOf(sourceTree[u]) # {}
          /\ targetTree[u].files = sourceTree[u].files

\* C25: no step of a run, successful or failed, creates or removes an entry of
\* the skills directory other than the directories named after the plugins of
\* the list: the other entries are after every step what they were before it,
\* and every tree the run writes is the target of a listed plugin.
C25_OnlyPluginDirectories ==
    [][/\ otherEntries' = otherEntries
       /\ OtherNames \cap Plugins = {}
       /\ \A k \in DOMAIN calls' :
             calls'[k][1] \in {"remove", "copy"} => calls'[k][2][2] \in Plugins]_vars

\* a run wrote under a skills directory that holds an entry of another name,
\* and the entry is there when the run has ended
C25_Witness ==
    /\ Exited
    /\ otherEntries # {}
    /\ \E u \in Plugins : Did("remove", u, "ok") \/ Did("remove", u, "throw")
    /\ \E u \in Plugins : Did("copy", u, "ok") \/ Did("copy", u, "throw")

\* ---------------------------------------------------------------------
\* The manual installation of the README and the layout init produces

\* a child of move_claude_skill/plugins, which `cp -r plugins/*` copies whole
pluginDir(u) == PathJoin(sourceDir, <<u>>)

\* the path of q relative to its ancestor base
Relative(base, q) == SubSeq(q, Len(base) + 1, Len(q))

\* README "Manual Installation": cp -r move_claude_skill/plugins/* <skills dir>/
\* puts the whole of plugins/<u> at <skills dir>/<u>, so a file of the tree at
\* sourcePath(u) lands below <skills dir>/<u> in the directory that sourcePath(u)
\* is relative to plugins/<u>.  (The other children of plugins/<u>, such as
\* its README.md, are copied too and only add to the difference.)
ManualInstallation(u) ==
    {[dir |-> Relative(pluginDir(u), sourcePath(u)), file |-> p,
      content |-> sourceTree[u].files[p]] : p \in FilesOf(sourceTree[u])}

\* cli.js:62, fs.copy(sourcePath, targetPath): a file of the tree at
\* sourcePath(u) is at the same relative path below targetPath
InitLayout(u) ==
    {[dir |-> <<>>, file |-> p, content |-> targetTree[u].files[p]] :
        p \in FilesOf(targetTree[u])}

\* C27: after an init that ran to the summary on a skills directory that held
\* no plugin, the files below <skills dir>/<u>, with their relative paths and
\* contents, are those the manual installation of the README puts there, for
\* every plugin u whose source path exists.
C27_SameLayoutAsManual ==
    (/\ Exited /\ exitCode = 0 /\ SummaryPrinted
     /\ \A u \in Plugins : startTree[u] = NoTree) =>
        \A u \in Plugins :
            sourceTree[u].exists => InitLayout(u) = ManualInstallation(u)

(***************************************************************************)
(* Two processes running init at once on the same skills directory.  Each  *)
(* await of cli.js:29-63 is a step of the process that makes it; fs.remove *)
(* and fs.copy are not atomic, so they take one step per file and          *)
(* directory, which the steps of the other process interleave with.        *)
(***************************************************************************)

\* the variables of the process that runs alone, which stay as they start
single == <<pc, idx, console, calls, exitCode, history>>

\* The package holds each plugin with all its files or not at all; the
\* platform, which only selects the directory, is one of the table's keys.
ConcInit ==
    /\ command = "init"
    /\ platform = "linux"
    /\ sourceDirExists = TRUE
    /\ sourceTree \in [Plugins -> {t \in SourceTrees : FilesOf(t) \in {{}, Paths}}]
    /\ skillsDirExists \in BOOLEAN
    /\ targetTree \in [Plugins -> StaleTrees]
    /\ skillsDirExists = FALSE => \A u \in Plugins : targetTree[u] = NoTree
    /\ otherEntries = {}
    /\ run = [r \in Runs |-> [Idle EXCEPT !.pc = "ensureDir"]]
    /\ pc = "main"
    /\ idx = 1
    /\ console = <<>>
    /\ calls = <<>>
    /\ exitCode = -1
    /\ startDirExists = skillsDirExists
    /\ startTree = targetTree
    /\ prev = "none"

\* process r is between the first and the last filesystem step of its
\* removal or copy of plugin u
MidPlugin(r, u) ==
    /\ run[r].pc \in {"remove", "copyStat", "mkdir", "copyFile"}
    /\ plugins[run[r].idx] = u

\* process r takes a step of its removal or copy of u while another process is
\* in the middle of its own removal or copy of u
Races(r, u) == \E o \in Runs \ {r} : MidPlugin(o, u)

\* process r moves to position p (of plugin i, at file k of its copy)
Goto(r, p, i, k) ==
    run' = [run EXCEPT ![r] = [pc |-> p, idx |-> i, k |-> k, exitCode |-> -1,
                               raced |-> run[r].raced]]

\* a step of the removal or copy of plugin u by r
GotoIn(r, u, p, k) ==
    run' = [run EXCEPT ![r] = [pc |-> p, idx |-> run[r].idx, k |-> k, exitCode |-> -1,
                               raced |-> run[r].raced \/ Races(r, u)]]

\* cli.js:74-77 (code 1) and the end of main (code 0)
RunExit(r, code) ==
    run' = [run EXCEPT ![r] = [pc |-> "exited", idx |-> run[r].idx, k |-> 1,
                               exitCode |-> code, raced |-> run[r].raced]]

\* cli.js:29
RunEnsureDir(r) ==
    /\ run[r].pc = "ensureDir"
    /\ skillsDirExists' = TRUE
    /\ Goto(r, "checkSourceDir", 1, 1)
    /\ UNCHANGED <<command, platform, sourceDirExists, sourceTree, otherEntries,
                   targetTree, single>>

\* cli.js:35-38
RunCheckSourceDir(r) ==
    /\ run[r].pc = "checkSourceDir"
    /\ IF SourceDirFound THEN Goto(r, "checkSourcePath", 1, 1) ELSE RunExit(r, 1)
    /\ UNCHANGED <<command, platform, sourceDirExists, sourceTree, otherEntries,
                   skillsDirExists, targetTree, single>>

\* cli.js:43-51 and, past the last plugin, 66-72 and the end of main
RunCheckSourcePath(r) ==
    /\ run[r].pc = "checkSourcePath"
    /\ IF run[r].idx > Len(plugins)
       THEN RunExit(r, 0)
       ELSE IF SourcePathExists(plugins[run[r].idx])
            THEN Goto(r, "checkTargetPath", run[r].idx, 1)
            ELSE Goto(r, "checkSourcePath", run[r].idx + 1, 1)
    /\ UNCHANGED <<command, platform, sourceDirExists, sourceTree, otherEntries,
                   skillsDirExists, targetTree, single>>

\* cli.js:54-59
RunCheckTargetPath(r) ==
    /\ run[r].pc = "checkTargetPath"
    /\ IF TargetPathExists(plugins[run[r].idx])
       THEN Goto(r, "remove", run[r].idx, 1)
       ELSE Goto(r, "copyStat", run[r].idx, 1)
    /\ UNCHANGED <<command, platform, sourceDirExists, sourceTree, otherEntries,
                   skillsDirExists, targetTree, single>>

\* a removal after which the loop goes to the next plugin
RemoveDoneNextPlugin(r, u) == Goto(r, "checkSourcePath", run[r].idx + 1, 1)

\* cli.js:56-62, once fs.remove has resolved the copy follows
RemoveDone(r, u) == GotoIn(r, u, "copyStat", 1)

\* cli.js:56, one step of fs.remove(targetPath) (rm with recursive and force):
\* a path that is gone is no error; a file under it is unlinked; the
\* directory, once empty, is removed, which ends the call
RunRemoveStep(r) ==
    /\ run[r].pc = "remove"
    /\ LET u == plugins[run[r].idx] IN
       IF ~targetTree[u].exists
       THEN /\ RemoveDone(r, u)
            /\ UNCHANGED targetTree
       ELSE IF FilesOf(targetTree[u]) # {}
            THEN /\ \E p \in FilesOf(targetTree[u]) :
                       targetTree' = [targetTree EXCEPT ![u].files[p] = "absent"]
                 /\ GotoIn(r, u, "remove", 1)
            ELSE /\ targetTree' = [targetTree EXCEPT ![u] = NoTree]
                 /\ RemoveDone(r, u)
    /\ UNCHANGED <<command, platform, sourceDirExists, sourceTree, otherEntries,
                   skillsDirExists, single>>

\* cli.js:62, fs.copy(sourcePath, targetPath) looks at the destination first
RunCopyStat(r) ==
    /\ run[r].pc = "copyStat"
    /\ LET u == plugins[run[r].idx] IN
       IF targetTree[u].exists
       THEN GotoIn(r, u, "copyFile", 1)
       ELSE GotoIn(r, u, "mkdir", 1)
    /\ UNCHANGED <<command, platform, sourceDirExists, sourceTree, otherEntries,
                   skillsDirExists, targetTree, single>>

\* cli.js:62, fs.copy creates the destination it found missing; when another
\* process created it meanwhile the call goes on or is rejected
RunMkdir(r) ==
    /\ run[r].pc = "mkdir"
    /\ LET u == plugins[run[r].idx] IN
       IF targetTree[u].exists
       THEN /\ GotoIn(r, u, "copyFile", 1) \/ RunExit(r, 1)
            /\ UNCHANGED targetTree
       ELSE /\ targetTree' = [targetTree EXCEPT ![u].exists = TRUE]
            /\ GotoIn(r, u, "copyFile", 1)
    /\ UNCHANGED <<command, platform, sourceDirExists, sourceTree, otherEntries,
                   skillsDirExists, single>>

\* cli.js:62-63, a file written into a directory that is gone: the call is
\* rejected and the catch of cli.js:74-77 ends the process
CopyFileOnMissingDir(r, u) ==
    /\ RunExit(r, 1)
    /\ UNCHANGED targetTree

\* cli.js:62-63, fs.copy writes the files of the source one after the other;
\* after the last one the call resolves and the loop goes to the next plugin
RunCopyFile(r) ==
    /\ run[r].pc = "copyFile"
    /\ LET u == plugins[run[r].idx]
           k == run[r].k
       IN  IF k \notin FilesOf(sourceTree[u])
           THEN /\ Goto(r, "checkSourcePath", run[r].idx + 1, 1)
                /\ UNCHANGED targetTree
           ELSE IF ~targetTree[u].exists
                THEN CopyFileOnMissingDir(r, u)
                ELSE /\ targetTree' = [targetTree EXCEPT ![u].files[k] = sourceTree[u].files[k]]
                     /\ GotoIn(r, u, "copyFile", k + 1)
    /\ UNCHANGED <<command, platform, sourceDirExists, sourceTree, otherEntries,
                   skillsDirExists, single>>

\* cli.js:74-77, any step of fs.remove or fs.copy can be rejected (an entry
\* that appeared in a directory being removed, a permission, a full disk)
RunThrows(r) ==
    /\ run[r].pc \in {"remove", "copyStat", "mkdir", "copyFile"}
    /\ RunExit(r, 1)
    /\ UNCHANGED <<command, platform, sourceDirExists, sourceTree, otherEntries,
                   skillsDirExists, targetTree, single>>

ConcNext ==
    \E r \in Runs :
        \/ RunEnsureDir(r)
        \/ RunCheckSourceDir(r)
        \/ RunCheckSourcePath(r)
        \/ RunCheckTargetPath(r)
        \/ RunRemoveStep(r)
        \/ RunCopyStat(r)
        \/ RunMkdir(r)
        \/ RunCopyFile(r)
        \/ RunThrows(r)

ConcSpec == ConcInit /\ [][ConcNext]_vars

AllTerminated == \A r \in Runs : run[r].pc = "exited"

\* every plugin whose source path exists has at its target path the tree of
\* its source path
EveryPluginInstalled ==
    \A u \in Plugins : sourceTree[u].exists => targetTree[u] = sourceTree[u]

\* C24 as stated: once both processes have ended, a process that exited with
\* status 0 implies that every plugin whose source path exists has a target
\* tree equal to its source tree.
C24_AsStated ==
    (AllTerminated /\ \E r \in Runs : run[r].exitCode = 0) => EveryPluginInstalled

\* C24, amended: once both processes have ended, if every one of them exited
\* with status 0 then every plugin whose source path exists has a target tree
\* equal to its source tree.
C24_AllExitZero ==
    (AllTerminated /\ \A r \in Runs : run[r].exitCode = 0) => EveryPluginInstalled

\* both processes exited 0 after their removals and copies of one plugin,
\* which holds files, overlapped
C24_Witness ==
    /\ AllTerminated
    /\ \A r \in Runs : run[r].exitCode = 0 /\ run[r].raced
    /\ \E u \in Plugins : FilesOf(sourceTree[u]) # {} /\ FilesOf(startTree[u]) # {}

====
